---- MODULE Spec2Model ----
(***************************************************************************)
(* Model of the propagate_control_flow normalization pass of cwe_checker   *)
(* (intermediate_representation/project/propagate_control_flow.rs).        *)
(*                                                                         *)
(* A program is a map from subroutine TIDs to the ordered block list of    *)
(* the subroutine.  TIDs are numbers: blocks 1.., jump  10*block+index,     *)
(* subroutines 101 and 102.  Optional values use the sentinels NoTid and   *)
(* NoExpr for Rust's None.                                                 *)
(***************************************************************************)
EXTENDS Integers, Sequences, FiniteSets, TLC

VARIABLES
    prog,       \* project.program.term.subs: sub tid -> sequence of blocks
    prog0,      \* the program at the start of the current run of the pass
    mid,        \* the program after retarget_jumps, before orphan removal
    pc,         \* position inside propagate_control_flow
    run,        \* number of the current run of the pass (1, 2, ..)
    before,     \* nodes_without_incoming_edges_at_beginning
    after,      \* nodes_without_incoming_edges_at_end
    plan,       \* jmps_to_retarget as built by the planner
    plan_left,  \* jmps_to_retarget once retarget_jumps has returned
    panicked,   \* retarget_jumps reached panic!("Unexpected type of jump ..")
    orig,       \* the program the first run of the pass started from
    ch,         \* locals of one call of find_target_for_retargetable_jump
    ne,         \* an expression and the results of negate_condition on it
    pl,         \* the planner loop: preconditions and searches of every node
    cb          \* one call of check_for_retargetable_block

vars == <<prog, prog0, orig, mid, pc, run, before, after, plan, plan_left, panicked, ch, ne, pl, cb>>

(***************************************************************************)
(* Bounds of the model.                                                    *)
(***************************************************************************)
\* number of freely chosen blocks of the subroutine under normalization
NFree == 3
\* how often the pass is run on the same program
MaxRuns == 2
\* number of freely chosen blocks in the programs the pass is run on twice
NTwice == 4
\* nesting depth of the expressions handed to negate_condition
MaxDepth == 3
\* length of the true_conditions handed to check_for_retargetable_block
MaxKnown == 2

(***************************************************************************)
(* IR terms.                                                               *)
(***************************************************************************)
NoTid == 0

NoExpr == [op |-> "None", name |-> "", arg |-> <<>>]

Var(n) == [op |-> "Var", name |-> n, arg |-> <<>>]

UnOp(o, e) == [op |-> o, name |-> "", arg |-> <<e>>]

Branch(tid, target) ==
    [tid |-> tid, kind |-> "Branch", target |-> target, condition |-> NoExpr,
     return_ |-> NoTid]

CBranch(tid, condition, target) ==
    [tid |-> tid, kind |-> "CBranch", target |-> target, condition |-> condition,
     return_ |-> NoTid]

\* Jmp::Call, Jmp::CallInd and Jmp::CallOther: target is the callee (NoTid for
\* CallInd / CallOther, whose callee is an expression / a description).
CallJmp(tid, kind, target, return_) ==
    [tid |-> tid, kind |-> kind, target |-> target, condition |-> NoExpr,
     return_ |-> return_]

Return(tid) ==
    [tid |-> tid, kind |-> "Return", target |-> NoTid, condition |-> NoExpr,
     return_ |-> NoTid]

\* Def::Assign and Def::Load: var is the variable written.  Def::Store writes
\* no variable: var is the variable whose value is stored.
Def(kind, var) == [kind |-> kind, var |-> var]

Blk(tid, defs, jmps) == [tid |-> tid, defs |-> defs, jmps |-> jmps]

CallKinds == {"Call", "CallInd", "CallOther"}

\* Expression::input_vars
RECURSIVE input_vars(_)
input_vars(e) ==
    IF e.op = "Var" THEN {e.name}
    ELSE IF e.arg = <<>> THEN {}
    ELSE input_vars(e.arg[1])

(***************************************************************************)
(* negate_condition                                                        *)
(***************************************************************************)
\* Variant: an existing negation is not removed.
negate_condition_always_wraps(expr) == UnOp("BoolNegate", expr)

negate_condition(expr) ==
    IF expr.op = "BoolNegate" THEN expr.arg[1] ELSE UnOp("BoolNegate", expr)

(***************************************************************************)
(* Helpers over sequences and programs.                                    *)
(***************************************************************************)
Range(s) == {s[i] : i \in DOMAIN s}

Min(S) == CHOOSE x \in S : \A y \in S : x <= y

SubTids(p) == DOMAIN p

BlockTids(blocks) == {blocks[i].tid : i \in DOMAIN blocks}

AllBlockTids(p) == UNION {BlockTids(p[s]) : s \in SubTids(p)}

\* sub.blocks.iter().find(|blk| blk.tid == *tid): the first block with the tid
FindBlock(blocks, tid) ==
    blocks[Min({i \in DOMAIN blocks : blocks[i].tid = tid})]

HasBlock(blocks, tid) == \E i \in DOMAIN blocks : blocks[i].tid = tid

IsJumpPair(jmps) ==
    Len(jmps) = 2 /\ jmps[1].kind = "CBranch" /\ jmps[2].kind = "Branch"

IsSingle(jmps, kinds) == Len(jmps) = 1 /\ jmps[1].kind \in kinds

(***************************************************************************)
(* The control flow graph (analysis::graph::get_program_cfg), reduced to   *)
(* what the pass reads: one BlkStart node per block of every subroutine    *)
(* and the edges that end in BlkStart nodes.  An edge is a record          *)
(*   src, dst : block tids (dst in the sub `sub`, or the callee's entry)   *)
(*   kind     : "Jump" | "ExternCallStub" | "Call"                         *)
(*   jmp      : the jump term of the edge                                  *)
(*   untaken  : for Edge::Jump the optional second term, the conditional   *)
(*              jump that was not taken (NoExpr-conditioned NoJmp if None) *)
(***************************************************************************)
NoJmp == [tid |-> NoTid, kind |-> "None", target |-> NoTid, condition |-> NoExpr,
          return_ |-> NoTid]

Edge(src, dst, kind, jmp, untaken) ==
    [src |-> src, dst |-> dst, kind |-> kind, jmp |-> jmp, untaken |-> untaken]

BlockEdges(p, s, blk) ==
    LET blocks == p[s]
        jmps == blk.jmps
        JumpEdge(j, untaken) ==
            IF HasBlock(blocks, j.target)
            THEN {Edge(blk.tid, j.target, "Jump", j, untaken)} ELSE {}
        ReturnEdge(j) ==
            IF j.return_ # NoTid /\ HasBlock(blocks, j.return_)
            THEN {Edge(blk.tid, j.return_, "ExternCallStub", j, NoJmp)} ELSE {}
        CallEdge(j) ==
            IF j.kind = "Call" /\ j.target \in SubTids(p) /\ Len(p[j.target]) > 0
            THEN {Edge(blk.tid, p[j.target][1].tid, "Call", j, NoJmp)} ELSE {}
    IN  IF IsJumpPair(jmps)
        THEN JumpEdge(jmps[1], NoJmp) \cup JumpEdge(jmps[2], jmps[1])
        ELSE IF IsSingle(jmps, {"Branch"}) THEN JumpEdge(jmps[1], NoJmp)
        ELSE IF IsSingle(jmps, CallKinds) THEN ReturnEdge(jmps[1]) \cup CallEdge(jmps[1])
        ELSE {}

get_program_cfg(p) ==
    [nodes |-> UNION {{[block |-> b, sub |-> s] : b \in Range(p[s])} : s \in SubTids(p)},
     edges |-> UNION {UNION {BlockEdges(p, s, b) : b \in Range(p[s])} : s \in SubTids(p)}]

\* graph.edges_directed(node, Incoming)
IncomingEdges(cfg, node) == {e \in cfg.edges : e.dst = node.block.tid}

(***************************************************************************)
(* check_for_retargetable_block and find_target_for_retargetable_jump      *)
(***************************************************************************)
\* Variant: the condition of the jump is negated, not the known condition.
FindMapTarget_negates_condition(condition, if_target, else_target, true_conditions) ==
    LET hits == {i \in DOMAIN true_conditions :
                    \/ condition = true_conditions[i]
                    \/ negate_condition(condition) = true_conditions[i]}
    IN  IF hits = {} THEN NoTid
        ELSE IF condition = true_conditions[Min(hits)] THEN if_target
        ELSE else_target

\* true_conditions.iter().find_map(..): the first known condition that
\* settles the conditional jump decides the target.
FindMapTarget(condition, if_target, else_target, true_conditions) ==
    LET hits == {i \in DOMAIN true_conditions :
                    \/ condition = true_conditions[i]
                    \/ condition = negate_condition(true_conditions[i])}
    IN  IF hits = {} THEN NoTid
        ELSE IF condition = true_conditions[Min(hits)] THEN if_target
        ELSE else_target

\* Variant: the test for definitions is missing.
check_for_retargetable_block_no_defs_test(block, true_conditions) ==
    IF IsSingle(block.jmps, {"Branch"}) THEN block.jmps[1].target
    ELSE IF IsJumpPair(block.jmps)
    THEN FindMapTarget(block.jmps[1].condition, block.jmps[1].target,
                       block.jmps[2].target, true_conditions)
    ELSE NoTid

check_for_retargetable_block(block, true_conditions) ==
    IF block.defs # <<>> THEN NoTid
    ELSE IF IsSingle(block.jmps, {"Branch"}) THEN block.jmps[1].target
    ELSE IF IsJumpPair(block.jmps)
    THEN FindMapTarget(block.jmps[1].condition, block.jmps[1].target,
                       block.jmps[2].target, true_conditions)
    ELSE NoTid

\* The locals of find_target_for_retargetable_jump before the first loop step.
ChainStart(target) ==
    [visited_tids |-> {target}, new_target |-> target, steps |-> 0, done |-> FALSE]

\* Variant: the loop is left after the first retarget it finds.
ChainStep_single_hop(st, blocks, true_conditions) ==
    IF ~HasBlock(blocks, st.new_target)
    THEN [st EXCEPT !.done = TRUE, !.steps = @ + 1]
    ELSE LET retarget == check_for_retargetable_block(
                             FindBlock(blocks, st.new_target), true_conditions)
         IN  IF retarget = NoTid \/ retarget \in st.visited_tids
             THEN [st EXCEPT !.done = TRUE, !.steps = @ + 1]
             ELSE [st EXCEPT !.visited_tids = @ \cup {retarget},
                             !.new_target = retarget, !.steps = @ + 1, !.done = TRUE]

\* Variant: the test of the visited set is missing.
ChainStep_no_visited_test(st, blocks, true_conditions) ==
    IF ~HasBlock(blocks, st.new_target)
    THEN [st EXCEPT !.done = TRUE, !.steps = @ + 1]
    ELSE LET retarget == check_for_retargetable_block(
                             FindBlock(blocks, st.new_target), true_conditions)
         IN  IF retarget = NoTid
             THEN [st EXCEPT !.done = TRUE, !.steps = @ + 1]
             ELSE [st EXCEPT !.visited_tids = @ \cup {retarget},
                             !.new_target = retarget, !.steps = @ + 1]

\* One step of the while-let loop: the lookup of the block, and the body.
ChainStep(st, blocks, true_conditions) ==
    IF ~HasBlock(blocks, st.new_target)
    THEN [st EXCEPT !.done = TRUE, !.steps = @ + 1]
    ELSE LET retarget == check_for_retargetable_block(
                             FindBlock(blocks, st.new_target), true_conditions)
         IN  IF retarget = NoTid
             THEN [st EXCEPT !.done = TRUE, !.steps = @ + 1]
             ELSE IF retarget \in st.visited_tids
             THEN [st EXCEPT !.done = TRUE, !.steps = @ + 1]
             ELSE [st EXCEPT !.visited_tids = @ \cup {retarget},
                             !.new_target = retarget, !.steps = @ + 1]

RECURSIVE ChainRun(_, _, _)
ChainRun(st, blocks, true_conditions) ==
    IF st.done THEN st ELSE ChainRun(ChainStep(st, blocks, true_conditions),
                                     blocks, true_conditions)

\* The value returned after the loop: Some(new_target) or None.
ChainResult(st, target) == IF st.new_target # target THEN st.new_target ELSE NoTid

find_target_for_retargetable_jump(target, blocks, true_conditions) ==
    ChainResult(ChainRun(ChainStart(target), blocks, true_conditions), target)

(***************************************************************************)
(* get_precondition_from_incoming_edges, get_block_precondition_after_defs *)
(***************************************************************************)
\* The condition one incoming edge stands for; NoExpr for `_ => return None`.
EdgeCondition(e) ==
    IF e.kind = "Jump" /\ e.jmp.kind = "CBranch" /\ e.untaken = NoJmp
    THEN e.jmp.condition
    ELSE IF e.kind = "Jump" /\ e.jmp.kind = "Branch" /\ e.untaken.kind = "CBranch"
    THEN negate_condition(e.untaken.condition)
    ELSE NoExpr

get_precondition_from_incoming_edges(cfg, node) ==
    LET conds == {EdgeCondition(e) : e \in IncomingEdges(cfg, node)}
    IN  IF Cardinality(conds) = 1 /\ NoExpr \notin conds
        THEN CHOOSE c \in conds : TRUE
        ELSE NoExpr

\* Variant: a Store definition is treated like an Assign or a Load.
get_block_precondition_any_def_invalidates(cfg, p, node) ==
    IF node.block.tid = p[node.sub][1].tid THEN NoExpr
    ELSE LET block_precondition == get_precondition_from_incoming_edges(cfg, node)
         IN  IF block_precondition = NoExpr THEN NoExpr
             ELSE IF \E i \in DOMAIN node.block.defs :
                        node.block.defs[i].var \in input_vars(block_precondition)
             THEN NoExpr
             ELSE block_precondition

get_block_precondition_after_defs(cfg, p, node) ==
    IF node.block.tid = p[node.sub][1].tid THEN NoExpr
    ELSE LET block_precondition == get_precondition_from_incoming_edges(cfg, node)
         IN  IF block_precondition = NoExpr THEN NoExpr
             ELSE IF \E i \in DOMAIN node.block.defs :
                        /\ node.block.defs[i].kind \in {"Assign", "Load"}
                        /\ node.block.defs[i].var \in input_vars(block_precondition)
             THEN NoExpr
             ELSE block_precondition

(***************************************************************************)
(* The planner: the loop over the nodes in propagate_control_flow.         *)
(***************************************************************************)
\* true_conditions after the optional push of the block precondition
BlockConditions(cfg, p, node) ==
    LET pre == get_block_precondition_after_defs(cfg, p, node)
    IN  IF pre = NoExpr THEN <<>> ELSE <<pre>>

\* Variant: the precondition of the calling block is kept for the search.
CallConditions_keep_precondition(true_conditions) == true_conditions

\* The conditions handed to the search for the return target of a call.
CallConditions(true_conditions) == <<>>

\* true_conditions.push(condition.clone())
IfConditions(true_conditions, condition) == Append(true_conditions, condition)

\* Variant: the condition is not popped before its negation is pushed.
ElseConditions_without_pop(true_conditions, condition) ==
    Append(Append(true_conditions, condition), negate_condition(condition))

\* true_conditions.pop(); true_conditions.push(negate_condition(condition))
ElseConditions(true_conditions, condition) ==
    Append(true_conditions, negate_condition(condition))

PlanEntry(jmp_tid, new_target) ==
    IF new_target = NoTid THEN {} ELSE {[tid |-> jmp_tid, new_target |-> new_target]}

\* One call of find_target_for_retargetable_jump: the jump it is made for,
\* the target the search starts from, and the conditions handed to it.
PlanCall(jmp_tid, target, true_conditions) ==
    [tid |-> jmp_tid, target |-> target, true_conditions |-> true_conditions]

\* The calls of find_target_for_retargetable_jump made for one BlkStart node.
PlanCalls(cfg, p, node) ==
    LET jmps == node.block.jmps
        true_conditions == BlockConditions(cfg, p, node)
    IN  IF IsSingle(jmps, CallKinds) /\ jmps[1].return_ # NoTid
        THEN {PlanCall(jmps[1].tid, jmps[1].return_, CallConditions(true_conditions))}
        ELSE IF IsSingle(jmps, {"Branch"})
        THEN {PlanCall(jmps[1].tid, jmps[1].target, true_conditions)}
        ELSE IF IsJumpPair(jmps)
        THEN {PlanCall(jmps[1].tid, jmps[1].target,
                       IfConditions(true_conditions, jmps[1].condition)),
              PlanCall(jmps[2].tid, jmps[2].target,
                       ElseConditions(true_conditions, jmps[1].condition))}
        ELSE {}

\* The entries one BlkStart node adds to jmps_to_retarget.
PlanNode(cfg, p, node) ==
    UNION {PlanEntry(c.tid,
               find_target_for_retargetable_jump(c.target, p[node.sub],
                                                 c.true_conditions))
           : c \in PlanCalls(cfg, p, node)}

\* jmps_to_retarget once every node has been visited (jump tids are unique,
\* so no insert overwrites another).
BuildPlan(p) ==
    LET cfg == get_program_cfg(p)
        entries == UNION {PlanNode(cfg, p, n) : n \in cfg.nodes}
    IN  [t \in {e.tid : e \in entries} |->
            (CHOOSE e \in entries : e.tid = t).new_target]

(***************************************************************************)
(* retarget_jumps                                                          *)
(***************************************************************************)
\* Variant: the arm for Jmp::CallOther is missing from the match.
IsRetargetableJmp_without_CallOther(jmp) ==
    \/ jmp.kind \in {"Branch", "CBranch"}
    \/ jmp.kind \in {"Call", "CallInd"} /\ jmp.return_ # NoTid

\* The jump shapes whose target the match in retarget_jumps overwrites.
IsRetargetableJmp(jmp) ==
    \/ jmp.kind \in {"Branch", "CBranch"}
    \/ jmp.kind \in CallKinds /\ jmp.return_ # NoTid

\* Variant: the first field of every jump is overwritten, for a call the callee.
RetargetJmp_overwrites_callee(jmp, new_target) == [jmp EXCEPT !.target = new_target]

RetargetJmp(jmp, new_target) ==
    IF jmp.kind \in {"Branch", "CBranch"}
    THEN [jmp EXCEPT !.target = new_target]
    ELSE [jmp EXCEPT !.return_ = new_target]

AllJmps(p) == UNION {UNION {Range(b.jmps) : b \in Range(p[s])} : s \in SubTids(p)}

\* Jump tids are unique in the programs of the model, so that every entry is
\* removed by at most one jump and the order of the iteration does not matter.
retarget_jumps(p, jmps_to_retarget) ==
    LET hit == {j \in AllJmps(p) : j.tid \in DOMAIN jmps_to_retarget}
        NewJmp(j) ==
            IF j.tid \in DOMAIN jmps_to_retarget /\ IsRetargetableJmp(j)
            THEN RetargetJmp(j, jmps_to_retarget[j.tid]) ELSE j
        NewBlk(b) == [b EXCEPT !.jmps = [i \in DOMAIN b.jmps |-> NewJmp(b.jmps[i])]]
    IN  [prog |-> [s \in SubTids(p) |-> [i \in DOMAIN p[s] |-> NewBlk(p[s][i])]],
         left |-> [t \in (DOMAIN jmps_to_retarget) \ {j.tid : j \in hit} |->
                      jmps_to_retarget[t]],
         panicked |-> \E j \in hit : ~IsRetargetableJmp(j)]

(***************************************************************************)
(* get_nodes_without_incoming_edge and remove_new_orphaned_blocks          *)
(***************************************************************************)
\* Variant: only Edge::Jump edges count as incoming edges.
get_nodes_without_incoming_jump_edge(cfg) ==
    {n.block.tid : n \in {m \in cfg.nodes :
        {e \in IncomingEdges(cfg, m) : e.kind = "Jump"} = {}}}

get_nodes_without_incoming_edge(cfg) ==
    {n.block.tid : n \in {m \in cfg.nodes : IncomingEdges(cfg, m) = {}}}

\* Variant: every orphan of the rewritten program is removed.
remove_all_orphaned_blocks(p, orphaned_blocks_before, orphaned_blocks_after) ==
    [s \in SubTids(p) |->
        SelectSeq(p[s], LAMBDA blk : blk.tid \notin orphaned_blocks_after)]

\* Variant: the set difference is taken the wrong way round.
remove_old_orphaned_blocks(p, orphaned_blocks_before, orphaned_blocks_after) ==
    LET new_orphan_blocks == orphaned_blocks_before \ orphaned_blocks_after
    IN  [s \in SubTids(p) |->
            SelectSeq(p[s], LAMBDA blk : blk.tid \notin new_orphan_blocks)]

remove_new_orphaned_blocks(p, orphaned_blocks_before, orphaned_blocks_after) ==
    LET new_orphan_blocks == orphaned_blocks_after \ orphaned_blocks_before
    IN  [s \in SubTids(p) |->
            SelectSeq(p[s], LAMBDA blk : blk.tid \notin new_orphan_blocks)]

(***************************************************************************)
(* The programs the pass is run on.  Sub 101 holds NFree freely chosen     *)
(* blocks followed by an end block with a definition and a jump to itself  *)
(* (end_blk of the tests); sub 102 holds one return block (ret_blk) and is *)
(* the callee of every Jmp::Call.                                          *)
(***************************************************************************)
SubA == 101
SubB == 102

ZF == Var("ZF")
CF == Var("CF")
Not(e) == UnOp("BoolNegate", e)

\* With n free blocks the end block has tid n + 1 and the return block n + 2.
EndBlk(n) == Blk(n + 1, <<Def("Assign", "r0")>>, <<Branch(10 * (n + 1) + 1, n + 1)>>)
RetBlk(n) == Blk(n + 2, <<>>, <<Return(10 * (n + 2) + 1)>>)

\* A block shape: the block without its position in the subroutine.
Shape(kind, defs, condition, t1, t2) ==
    [kind |-> kind, defs |-> defs, condition |-> condition, t1 |-> t1, t2 |-> t2]

BranchShapes(defChoices, targets) ==
    {Shape("Branch", d, NoExpr, t, NoTid) : d \in defChoices, t \in targets}

CondShapes(conds, targetPairs) ==
    {Shape("CBranch", <<>>, c, t[1], t[2]) : c \in conds, t \in targetPairs}

\* t1 = 1: the call returns to the following block; t1 = 0: it does not return.
CallShapes == {Shape(k, <<>>, NoExpr, r, NoTid) : k \in CallKinds, r \in {0, 1}}

ReturnShapes == {Shape("Return", <<>>, NoExpr, NoTid, NoTid)}

Inst(i, sh) ==
    Blk(i, sh.defs,
        IF sh.kind = "Branch" THEN <<Branch(10 * i + 1, sh.t1)>>
        ELSE IF sh.kind = "CBranch"
        THEN <<CBranch(10 * i + 1, sh.condition, sh.t1), Branch(10 * i + 2, sh.t2)>>
        ELSE IF sh.kind \in CallKinds
        THEN <<CallJmp(10 * i + 1, sh.kind, IF sh.kind = "Call" THEN SubB ELSE NoTid,
                       IF sh.t1 = 1 THEN i + 1 ELSE NoTid)>>
        ELSE <<Return(10 * i + 1)>>)

MkProg(n, f) ==
    (SubA :> ([i \in 1..n |-> Inst(i, f[i])] \o <<EndBlk(n)>>)) @@ (SubB :> <<RetBlk(n)>>)

\* The shapes of the programs of Spec: any target, also one outside the sub.
PassShapes ==
    BranchShapes({<<>>, <<Def("Assign", "r0")>>, <<Def("Assign", "ZF")>>},
                 1..(NFree + 2))
    \cup CondShapes({ZF, Not(ZF), CF},
                    {u \in (1..(NFree + 1)) \X (1..(NFree + 1)) : u[1] # u[2]})
    \cup CallShapes \cup ReturnShapes

\* The shapes of block i in the programs of SpecTwice: every jump goes forward,
\* so that no block without definitions lies on a cycle.
ForwardShapes(i) ==
    BranchShapes({<<>>, <<Def("Assign", "r0")>>}, (i + 1)..(NTwice + 1))
    \cup CondShapes({ZF, CF}, ((i + 1)..(NTwice + 1)) \X ((i + 1)..(NTwice + 1)))
    \cup ReturnShapes

NoChain == [visited_tids |-> {}, new_target |-> NoTid, steps |-> 0, done |-> TRUE,
            target |-> NoTid, true_conditions |-> <<>>, result |-> NoTid]

NoNeg == [e |-> NoExpr, cur |-> NoExpr, n |-> 0]

EmptyPlan == [t \in {} |-> NoTid]

NoPlanner == [pre |-> <<>>, calls |-> {}]

NoCheck == [block |-> Blk(NoTid, <<>>, <<>>), true_conditions |-> <<>>, result |-> NoTid]

(***************************************************************************)
(* Spec: propagate_control_flow, run MaxRuns times on a program.           *)
(***************************************************************************)
Init ==
    /\ prog \in {MkProg(NFree, f) : f \in [1..NFree -> PassShapes]}
    /\ prog0 = prog
    /\ orig = prog
    /\ mid = prog
    /\ pc = "start"
    /\ run = 1
    /\ before = {}
    /\ after = {}
    /\ plan = EmptyPlan
    /\ plan_left = EmptyPlan
    /\ panicked = FALSE
    /\ ch = NoChain
    /\ ne = NoNeg
    /\ pl = NoPlanner
    /\ cb = NoCheck

\* Lines 21-112: the CFG before normalization, its orphans, and the plan.
Plan ==
    /\ pc = "start"
    /\ before' = get_nodes_without_incoming_edge(get_program_cfg(prog))
    /\ plan' = BuildPlan(prog)
    /\ pc' = "planned"
    /\ UNCHANGED <<prog, prog0, orig, mid, run, after, plan_left, panicked, ch, ne, pl, cb>>

\* Line 113: retarget_jumps(project, jmps_to_retarget).
Retarget ==
    /\ pc = "planned"
    /\ LET r == retarget_jumps(prog, plan)
       IN  /\ prog' = r.prog
           /\ mid' = r.prog
           /\ plan_left' = r.left
           /\ panicked' = r.panicked
           /\ pc' = IF r.panicked THEN "panic" ELSE "retargeted"
    /\ UNCHANGED <<prog0, orig, run, before, after, plan, ch, ne, pl, cb>>

\* Lines 115-123: the CFG after normalization and the orphan removal.
RemoveOrphans ==
    /\ pc = "retargeted"
    /\ after' = get_nodes_without_incoming_edge(get_program_cfg(prog))
    /\ prog' = remove_new_orphaned_blocks(prog, before, after')
    /\ pc' = "done"
    /\ UNCHANGED <<prog0, orig, mid, run, before, plan, plan_left, panicked, ch, ne, pl, cb>>

\* The pass is called again on its own output.
Rerun ==
    /\ pc = "done"
    /\ run < MaxRuns
    /\ run' = run + 1
    /\ prog0' = prog
    /\ pc' = "start"
    /\ UNCHANGED <<prog, orig, mid, before, after, plan, plan_left, panicked, ch, ne, pl, cb>>

Next == Plan \/ Retarget \/ RemoveOrphans \/ Rerun

Spec == Init /\ [][Next]_vars

(***************************************************************************)
(* SpecTwice: the same pass on programs of NTwice blocks that only jump    *)
(* forward.                                                                *)
(***************************************************************************)
\* The sequences of shapes for the blocks i .. NTwice.
RECURSIVE ForwardShapeSeqs(_)
ForwardShapeSeqs(i) ==
    IF i > NTwice THEN {<<>>}
    ELSE {<<sh>> \o rest : sh \in ForwardShapes(i), rest \in ForwardShapeSeqs(i + 1)}

InitTwice ==
    /\ prog \in {MkProg(NTwice, f) : f \in ForwardShapeSeqs(1)}
    /\ prog0 = prog
    /\ orig = prog
    /\ mid = prog
    /\ pc = "start"
    /\ run = 1
    /\ before = {}
    /\ after = {}
    /\ plan = EmptyPlan
    /\ plan_left = EmptyPlan
    /\ panicked = FALSE
    /\ ch = NoChain
    /\ ne = NoNeg
    /\ pl = NoPlanner
    /\ cb = NoCheck

SpecTwice == InitTwice /\ [][Next]_vars

(***************************************************************************)
(* SpecChain: one call of find_target_for_retargetable_jump, loop step by  *)
(* loop step, on the first subroutine of a program.                        *)
(***************************************************************************)
ChainShapes ==
    BranchShapes({<<>>}, 1..(NFree + 2))
    \cup BranchShapes({<<Def("Assign", "r0")>>}, {NFree + 1})
    \cup CondShapes({ZF, Not(ZF)},
                    {u \in (1..(NFree + 1)) \X (1..(NFree + 1)) : u[1] # u[2]})
    \cup ReturnShapes

ChainConditions == {<<>>, <<ZF>>, <<Not(Not(ZF))>>, <<CF, Not(ZF)>>}

InitChain ==
    /\ prog \in {MkProg(NFree, f) : f \in [1..NFree -> ChainShapes]}
    /\ prog0 = prog
    /\ orig = prog
    /\ mid = prog
    /\ pc = "chain"
    /\ run = 1
    /\ before = {}
    /\ after = {}
    /\ plan = EmptyPlan
    /\ plan_left = EmptyPlan
    /\ panicked = FALSE
    /\ \E target \in {1, NFree + 2} : \E true_conditions \in ChainConditions :
          ch = [visited_tids |-> ChainStart(target).visited_tids,
                new_target |-> ChainStart(target).new_target,
                steps |-> ChainStart(target).steps,
                done |-> ChainStart(target).done,
                target |-> target, true_conditions |-> true_conditions,
                result |-> NoTid]
    /\ ne = NoNeg
    /\ pl = NoPlanner
    /\ cb = NoCheck

\* Lines 168-179: one evaluation of the loop condition and of the loop body.
ChainLoop ==
    /\ pc = "chain"
    /\ ~ch.done
    /\ ch' = ChainStep(ch, prog[SubA], ch.true_conditions)
    /\ UNCHANGED <<prog, prog0, orig, mid, pc, run, before, after, plan, plan_left,
                   panicked, ne, pl, cb>>

\* Lines 181-185: the value returned after the loop.
ChainReturn ==
    /\ pc = "chain"
    /\ ch.done
    /\ ch' = [ch EXCEPT !.result = ChainResult(ch, ch.target)]
    /\ pc' = "returned"
    /\ UNCHANGED <<prog, prog0, orig, mid, run, before, after, plan, plan_left,
                   panicked, ne, pl, cb>>

NextChain == ChainLoop \/ ChainReturn

SpecChain == InitChain /\ [][NextChain]_vars

(***************************************************************************)
(* SpecNeg: negate_condition applied twice to an expression.               *)
(***************************************************************************)
RECURSIVE Exprs(_)
Exprs(d) ==
    IF d = 0 THEN {Var("ZF"), Var("CF"), Var("r0")}
    ELSE Exprs(0) \cup {UnOp(o, e) : o \in {"BoolNegate", "IntNegate"}, e \in Exprs(d - 1)}

InitNeg ==
    /\ prog = MkProg(0, <<>>)
    /\ prog0 = prog
    /\ orig = prog
    /\ mid = prog
    /\ pc = "negate"
    /\ run = 1
    /\ before = {}
    /\ after = {}
    /\ plan = EmptyPlan
    /\ plan_left = EmptyPlan
    /\ panicked = FALSE
    /\ ch = NoChain
    /\ \E e \in Exprs(MaxDepth) : ne = [e |-> e, cur |-> e, n |-> 0]
    /\ pl = NoPlanner
    /\ cb = NoCheck

\* Lines 315-328: negate_condition on the result of the previous call.
Negate ==
    /\ pc = "negate"
    /\ ne.n < 2
    /\ ne' = [ne EXCEPT !.cur = negate_condition(ne.cur), !.n = @ + 1]
    /\ UNCHANGED <<prog, prog0, orig, mid, pc, run, before, after, plan, plan_left,
                   panicked, ch, pl, cb>>

NextNeg == Negate

SpecNeg == InitNeg /\ [][NextNeg]_vars

(***************************************************************************)
(* SpecPlan: the loop over the nodes in propagate_control_flow (lines      *)
(* 26-112) on programs whose blocks carry Assign, Load and Store           *)
(* definitions: first the precondition of every node, then the searches.   *)
(***************************************************************************)
PlanDefs ==
    {<<>>, <<Def("Assign", "ZF")>>, <<Def("Load", "ZF")>>, <<Def("Store", "ZF")>>,
     <<Def("Load", "r0")>>, <<Def("Store", "ZF"), Def("Assign", "CF")>>}

PlanShapes ==
    BranchShapes({<<>>}, 1..(NFree + 1))
    \cup BranchShapes(PlanDefs \ {<<>>}, {NFree + 1})
    \cup CondShapes({ZF, Not(ZF), CF},
                    {u \in (1..(NFree + 1)) \X (1..(NFree + 1)) : u[1] # u[2]})
    \cup CondShapes({ZF}, {<<t, t>> : t \in 2..NFree})
    \cup {Shape("CBranch", <<Def("Load", "ZF")>>, CF, u[1], u[2]) :
             u \in {v \in (1..(NFree + 1)) \X (1..(NFree + 1)) : v[1] # v[2]}}
    \cup {Shape("Call", <<>>, NoExpr, r, NoTid) : r \in {0, 1}}
    \cup ReturnShapes

InitPlan ==
    /\ prog \in {MkProg(NFree, f) : f \in [1..NFree -> PlanShapes]}
    /\ prog0 = prog
    /\ orig = prog
    /\ mid = prog
    /\ pc = "nodes"
    /\ run = 1
    /\ before = {}
    /\ after = {}
    /\ plan = EmptyPlan
    /\ plan_left = EmptyPlan
    /\ panicked = FALSE
    /\ ch = NoChain
    /\ ne = NoNeg
    /\ pl = NoPlanner
    /\ cb = NoCheck

\* Lines 33-37: get_block_precondition_after_defs for every BlkStart node.
DerivePreconditions ==
    /\ pc = "nodes"
    /\ LET cfg == get_program_cfg(prog)
       IN  pl' = [pl EXCEPT !.pre =
                     [t \in {n.block.tid : n \in cfg.nodes} |->
                         get_block_precondition_after_defs(cfg, prog,
                             CHOOSE n \in cfg.nodes : n.block.tid = t)]]
    /\ pc' = "derived"
    /\ UNCHANGED <<prog, prog0, orig, mid, run, before, after, plan, plan_left,
                   panicked, ch, ne, cb>>

\* Lines 38-111: the searches made for the jumps of every node, and the plan.
ResolveJumps ==
    /\ pc = "derived"
    /\ LET cfg == get_program_cfg(prog)
       IN  pl' = [pl EXCEPT !.calls = UNION {PlanCalls(cfg, prog, n) : n \in cfg.nodes}]
    /\ plan' = BuildPlan(prog)
    /\ pc' = "planned"
    /\ UNCHANGED <<prog, prog0, orig, mid, run, before, after, plan_left,
                   panicked, ch, ne, cb>>

NextPlan == DerivePreconditions \/ ResolveJumps

SpecPlan == InitPlan /\ [][NextPlan]_vars

(***************************************************************************)
(* SpecBlock: one call of check_for_retargetable_block on a block and a    *)
(* list of conditions that may be negated several times.                   *)
(***************************************************************************)
\* ZF and CF under 0 .. d negations.
RECURSIVE NegExprs(_)
NegExprs(d) ==
    IF d = 0 THEN {ZF, CF} ELSE {ZF, CF} \cup {Not(e) : e \in NegExprs(d - 1)}

KnownLists == UNION {[1..k -> NegExprs(MaxDepth)] : k \in 0..MaxKnown}

CheckBlocks ==
    {Inst(1, Shape("CBranch", d, c, t[1], t[2])) :
        d \in {<<>>, <<Def("Assign", "r0")>>}, c \in NegExprs(MaxDepth),
        t \in {<<2, 3>>, <<3, 2>>, <<2, 2>>}}
    \cup {Inst(1, sh) : sh \in BranchShapes({<<>>}, {2}) \cup ReturnShapes}

InitBlock ==
    /\ prog = MkProg(0, <<>>)
    /\ prog0 = prog
    /\ orig = prog
    /\ mid = prog
    /\ pc = "check"
    /\ run = 1
    /\ before = {}
    /\ after = {}
    /\ plan = EmptyPlan
    /\ plan_left = EmptyPlan
    /\ panicked = FALSE
    /\ ch = NoChain
    /\ ne = NoNeg
    /\ pl = NoPlanner
    /\ \E block \in CheckBlocks : \E true_conditions \in KnownLists :
          cb = [block |-> block, true_conditions |-> true_conditions, result |-> NoTid]

\* Lines 192-226: the call returns Some(target) or None.
CheckBlock ==
    /\ pc = "check"
    /\ cb' = [cb EXCEPT !.result = check_for_retargetable_block(cb.block,
                                                                cb.true_conditions)]
    /\ pc' = "checked"
    /\ UNCHANGED <<prog, prog0, orig, mid, run, before, after, plan, plan_left,
                   panicked, ch, ne, pl>>

NextBlock == CheckBlock

SpecBlock == InitBlock /\ [][NextBlock]_vars

(***************************************************************************)
(* Vocabulary of the properties.                                           *)
(***************************************************************************)
\* The plan in `plan` was built from prog0.
PlanIsCurrent == pc \in {"planned", "retargeted", "done", "panic"}

JmpByTid(p, tid) == CHOOSE j \in AllJmps(p) : j.tid = tid

\* The subroutine and the block that hold the jump.
SubOfJmp(p, tid) ==
    CHOOSE s \in SubTids(p) : \E b \in Range(p[s]) : \E j \in Range(b.jmps) : j.tid = tid

BlkOfJmp(p, tid) ==
    CHOOSE b \in Range(p[SubOfJmp(p, tid)]) : \E j \in Range(b.jmps) : j.tid = tid

\* The field of a jump that the pass may overwrite.
JmpTarget(j) == IF j.kind \in CallKinds THEN j.return_ ELSE j.target

BoolVars == {"ZF", "CF", "r0"}

Valuations == [BoolVars -> BOOLEAN]

RECURSIVE Eval(_, _)
Eval(e, v) == IF e.op = "Var" THEN v[e.name] ELSE ~Eval(e.arg[1], v)

\* Some expression of `known`, when true, fixes the value of `c` to `dir`.
Decides(known, c, dir) ==
    \E e \in known : \A v \in Valuations : Eval(e, v) => (Eval(c, v) = dir)

\* The blocks a jump to `t` may be moved to in one step: `t` has no
\* definitions and its exit is a branch, or a conditional branch that `known`
\* decides.
SoundSucc(blocks, t, known) ==
    IF ~HasBlock(blocks, t) THEN {}
    ELSE LET b == FindBlock(blocks, t)
         IN  IF b.defs # <<>> THEN {}
             ELSE IF IsSingle(b.jmps, {"Branch"}) THEN {b.jmps[1].target}
             ELSE IF IsJumpPair(b.jmps)
             THEN (IF Decides(known, b.jmps[1].condition, TRUE)
                   THEN {b.jmps[1].target} ELSE {})
                  \cup (IF Decides(known, b.jmps[1].condition, FALSE)
                        THEN {b.jmps[2].target} ELSE {})
             ELSE {}

RECURSIVE SoundClosure(_, _, _)
SoundClosure(blocks, R, known) ==
    LET R2 == R \cup UNION {SoundSucc(blocks, t, known) : t \in R}
    IN  IF R2 = R THEN R ELSE SoundClosure(blocks, R2, known)

\* The ends of the non-empty sound paths that start in `a`.
SoundEnds(blocks, a, known) ==
    SoundClosure(blocks, SoundSucc(blocks, a, known), known)

\* What the claim allows a jump to know: the precondition of its block after
\* the definitions, and its own condition (taken) or the negation (else).
KnownTrueOf(p, tid) ==
    LET cfg == get_program_cfg(p)
        s == SubOfJmp(p, tid)
        b == BlkOfJmp(p, tid)
        pre == get_block_precondition_after_defs(cfg, p, [block |-> b, sub |-> s])
    IN  (IF pre = NoExpr THEN {} ELSE {pre})
        \cup (IF IsJumpPair(b.jmps) /\ b.jmps[1].tid = tid
              THEN {b.jmps[1].condition} ELSE {})
        \cup (IF IsJumpPair(b.jmps) /\ b.jmps[2].tid = tid
              THEN {Not(b.jmps[1].condition)} ELSE {})

(***************************************************************************)
(* C1  Soundness of retargeting: every planned retarget of a jump from A   *)
(* to B follows a path A -> .. -> B of the original program, inside the    *)
(* subroutine of the jump, over blocks without definitions whose           *)
(* conditional branches are decided by what the jump knows to be true.     *)
(***************************************************************************)
C1_SoundRetarget ==
    PlanIsCurrent =>
        \A t \in DOMAIN plan :
            plan[t] \in SoundEnds(prog0[SubOfJmp(prog0, t)],
                                  JmpTarget(JmpByTid(prog0, t)),
                                  KnownTrueOf(prog0, t))

\* A jump is moved past a block that ends in a conditional branch.
C1_Witness ==
    /\ pc = "retargeted"
    /\ \E t \in DOMAIN plan :
          LET a == JmpTarget(JmpByTid(prog0, t))
              blocks == prog0[SubOfJmp(prog0, t)]
          IN  /\ HasBlock(blocks, a)
              /\ IsJumpPair(FindBlock(blocks, a).jmps)
              /\ JmpTarget(JmpByTid(prog, t)) = plan[t]

(***************************************************************************)
(* C2  Safety of call-return retargeting: the return target of a Call,     *)
(* CallInd or CallOther jump is moved only over blocks that have no        *)
(* definitions and end in a single unconditional branch, whatever          *)
(* precondition the calling block has.                                     *)
(***************************************************************************)
C2_CallReturnOnlyUnconditional ==
    pc \in {"retargeted", "done"} =>
        \A j \in AllJmps(prog0) :
            j.kind \in CallKinds =>
                LET j1 == JmpByTid(mid, j.tid)
                IN  \/ j1.return_ = j.return_
                    \/ j1.return_ \in SoundEnds(prog0[SubOfJmp(prog0, j.tid)],
                                                j.return_, {})

\* The return target of a call is moved although the calling block has a
\* derived precondition.
C2_Witness ==
    /\ pc = "retargeted"
    /\ \E j \in AllJmps(prog0) :
          /\ j.kind \in CallKinds
          /\ JmpByTid(mid, j.tid).return_ # j.return_
          /\ BlockConditions(get_program_cfg(prog0), prog0,
                 [block |-> BlkOfJmp(prog0, j.tid), sub |-> SubOfJmp(prog0, j.tid)])
             # <<>>

(***************************************************************************)
(* C3  Orphan preservation: the blocks one run removes are exactly the     *)
(* blocks without incoming edge in the CFG of the rewritten program that   *)
(* had an incoming edge in the CFG before the run; every block without     *)
(* incoming edge before the run is still in its subroutine.                *)
(***************************************************************************)
NoIncoming(p) ==
    LET dsts == {e.dst : e \in get_program_cfg(p).edges}
    IN  AllBlockTids(p) \ dsts

Removed == AllBlockTids(mid) \ AllBlockTids(prog)

C3_OrphanPreservation ==
    pc = "done" =>
        LET orphans0 == NoIncoming(prog0)
        IN  /\ Removed = NoIncoming(mid) \ orphans0
            /\ \A s \in SubTids(prog0) :
                  /\ s \in SubTids(prog)
                  /\ BlockTids(prog[s]) = BlockTids(mid[s]) \ Removed
                  /\ BlockTids(prog0[s]) \cap orphans0 \subseteq BlockTids(prog[s])

\* A block is removed while another block, not the entry of its subroutine,
\* that was an orphan before the run is kept.
C3_Witness ==
    /\ pc = "done"
    /\ Removed # {}
    /\ \E b \in NoIncoming(prog0) :
          /\ b \in AllBlockTids(prog)
          /\ \A s \in SubTids(prog0) : prog0[s][1].tid # b

(***************************************************************************)
(* C4  The pass never removes reachable code: no removed block can be      *)
(* reached from the first block of its subroutine in the rewritten         *)
(* program, and the first block of a subroutine is never removed.          *)
(***************************************************************************)
RECURSIVE EdgeClosure(_, _)
EdgeClosure(edges, R) ==
    LET R2 == R \cup {e.dst : e \in {x \in edges : x.src \in R /\ x.kind # "Call"}}
    IN  IF R2 = R THEN R ELSE EdgeClosure(edges, R2)

ReachableFromEntry(p, s) == EdgeClosure(get_program_cfg(p).edges, {p[s][1].tid})

C4_NoReachableBlockRemoved ==
    pc = "done" =>
        \A s \in SubTids(prog0) :
            /\ Removed \cap ReachableFromEntry(mid, s) = {}
            /\ prog[s] # <<>>
            /\ prog[s][1].tid = prog0[s][1].tid

(***************************************************************************)
(* C5  Dead-code removal is complete within one run: every block that had  *)
(* an incoming edge before the run and has no incoming edge from a block   *)
(* that survives the run has been removed.                                 *)
(***************************************************************************)
\* The blocks in question were reachable from the entry of their subroutine
\* before the run and are not the entry, and the entry survives the run.
C5_RemovalComplete ==
    pc = "done" =>
        LET orphans0 == NoIncoming(prog0)
            edges1 == get_program_cfg(mid).edges
            kept == AllBlockTids(prog)
        IN  \A s \in SubTids(prog0) : \A b \in BlockTids(prog0[s]) :
                ( /\ b \notin orphans0
                  /\ b # prog0[s][1].tid
                  /\ prog[s][1].tid = prog0[s][1].tid
                  /\ b \in ReachableFromEntry(prog0, s)
                  /\ ~\E e \in edges1 : e.dst = b /\ e.src \in kept )
                => b \notin kept

\* C5 as amended: every block that had an incoming edge before the run and
\* has no incoming edge at all in the CFG of the rewritten program (the
\* blocks removed by this run still counted as sources) has been removed,
\* and every removed block is taken out of the block list once.
C5_RemovalOfNewOrphans ==
    pc = "done" =>
        /\ (NoIncoming(mid) \ NoIncoming(prog0)) \cap AllBlockTids(prog) = {}
        /\ \A s \in SubTids(mid) :
              Len(mid[s]) - Len(prog[s]) = Cardinality(Removed \cap BlockTids(mid[s]))

\* A newly orphaned block is removed, and a block whose only incoming edges
\* come from removed blocks is kept.
C5_Witness ==
    /\ pc = "done"
    /\ Removed # {}
    /\ \E b \in BlockTids(prog[SubA]) :
          /\ b \notin NoIncoming(prog0)
          /\ b # prog0[SubA][1].tid
          /\ \A e \in get_program_cfg(mid).edges : e.dst = b => e.src \in Removed

(***************************************************************************)
(* C6  Target validity: if before the pass every branch target and every   *)
(* call return target is a block of the subroutine of the jump, the same   *)
(* holds after the pass for every jump of every surviving block.           *)
(***************************************************************************)
TargetsValid(p) ==
    \A s \in SubTids(p) : \A b \in Range(p[s]) : \A j \in Range(b.jmps) :
        /\ j.kind \in {"Branch", "CBranch"} => HasBlock(p[s], j.target)
        /\ (j.kind \in CallKinds /\ j.return_ # NoTid) => HasBlock(p[s], j.return_)

C6_TargetValidity == (pc = "done" /\ TargetsValid(prog0)) => TargetsValid(prog)

\* A run on a program with valid targets that retargets the return of a call
\* and removes a block.
C6_Witness ==
    /\ pc = "done"
    /\ TargetsValid(prog0)
    /\ Removed # {}
    /\ \E t \in DOMAIN plan : JmpByTid(prog0, t).kind \in CallKinds

(***************************************************************************)
(* C10  Planner/rewriter agreement: with unique jump tids retarget_jumps   *)
(* never panics, consumes every entry of the plan, and overwrites only the *)
(* target of the jump an entry names.                                      *)
(***************************************************************************)
UniqueJmpTids(p) ==
    /\ \A j, k \in AllJmps(p) : j.tid = k.tid => j = k
    /\ \A s \in SubTids(p) : \A i, k \in DOMAIN p[s] : \A m \in DOMAIN p[s][i].jmps :
          \A n \in DOMAIN p[s][k].jmps :
              p[s][i].jmps[m].tid = p[s][k].jmps[n].tid => (i = k /\ m = n)

C10_PlannerRewriterAgree ==
    UniqueJmpTids(prog0) =>
        /\ pc # "panic"
        /\ ~panicked
        /\ pc \in {"retargeted", "done"} =>
              /\ DOMAIN plan_left = {}
              /\ SubTids(mid) = SubTids(prog0)
              /\ \A s \in SubTids(prog0) :
                    /\ Len(mid[s]) = Len(prog0[s])
                    /\ \A i \in DOMAIN prog0[s] :
                          /\ Len(mid[s][i].jmps) = Len(prog0[s][i].jmps)
                          /\ \A m \in DOMAIN prog0[s][i].jmps :
                                LET j0 == prog0[s][i].jmps[m]
                                    j1 == mid[s][i].jmps[m]
                                IN  IF j0.tid \in DOMAIN plan
                                    THEN /\ JmpTarget(j1) = plan[j0.tid]
                                         /\ j1 = RetargetJmp(j0, plan[j0.tid])
                                    ELSE j1 = j0

\* The rewriter has applied a plan that holds a conditional branch and a jump
\* of the call family.
C10_Witness ==
    /\ pc = "retargeted"
    /\ \E t \in DOMAIN plan : JmpByTid(prog0, t).kind = "CBranch"
    /\ \E t \in DOMAIN plan : JmpByTid(prog0, t).kind \in CallKinds
    /\ \A t \in DOMAIN plan : JmpTarget(JmpByTid(mid, t)) # JmpTarget(JmpByTid(prog0, t))

(***************************************************************************)
(* C7  Idempotence after one application: for a program whose condition    *)
(* chains are acyclic, a second run of the pass on the output of the first *)
(* plans no retarget and removes no block.                                 *)
(***************************************************************************)
\* No block without definitions lies on a cycle of jump or call-return edges.
AcyclicChains(p) ==
    LET edges == get_program_cfg(p).edges
    IN  \A s \in SubTids(p) : \A b \in Range(p[s]) :
            b.defs = <<>> =>
                b.tid \notin EdgeClosure(edges,
                    {e.dst : e \in {x \in edges : x.src = b.tid /\ x.kind # "Call"}})

\* The entry precondition after the definitions of the block with tid b.
PreconditionOf(p, s, b) ==
    get_block_precondition_after_defs(get_program_cfg(p), p,
                                      [block |-> FindBlock(p[s], b), sub |-> s])

\* Every block of p has the precondition it had in q.
SamePreconditions(p, q) ==
    \A s \in SubTids(p) : \A b \in BlockTids(p[s]) :
        PreconditionOf(p, s, b) = PreconditionOf(q, s, b)

C7_SecondRunChangesNothing ==
    (run = 2 /\ PlanIsCurrent /\ AcyclicChains(orig)) =>
        /\ DOMAIN plan = {}
        /\ pc = "done" => prog = prog0

\* C7 as amended: for a program whose condition chains are acyclic and whose
\* surviving blocks derive, in the output of the first run, the entry
\* precondition they derived in the input, the second run plans no retarget
\* and removes no block.
C7_SecondRunStable ==
    (run = 2 /\ PlanIsCurrent /\ AcyclicChains(orig) /\ SamePreconditions(prog0, orig)) =>
        /\ DOMAIN plan = {}
        /\ pc = "done" => prog = prog0

\* The second run ends on a program that the first run rewrote and shortened
\* and in which some block has a derived precondition.
C7_Witness ==
    /\ run = 2
    /\ pc = "done"
    /\ AcyclicChains(orig)
    /\ SamePreconditions(prog0, orig)
    /\ AllBlockTids(prog0) # AllBlockTids(orig)
    /\ \E b \in BlockTids(prog0[SubA]) : PreconditionOf(prog0, SubA, b) # NoExpr

(***************************************************************************)
(* C8  Termination: find_target_for_retargetable_jump leaves its loop      *)
(* after at most |blocks of the subroutine| + 1 loop steps, also on jump   *)
(* cycles, because every step that does not leave the loop adds a new      *)
(* target to the visited set.                                              *)
(***************************************************************************)
C8_ChainTerminates ==
    pc \in {"chain", "returned"} =>
        /\ ch.steps <= Len(prog[SubA]) + 1
        /\ ch.steps = Cardinality(ch.visited_tids) - (IF ch.done THEN 0 ELSE 1)
        /\ ch.new_target \in ch.visited_tids

\* The search has run around a cycle through all free blocks and was stopped
\* by the visited set.
C8_Witness ==
    /\ pc = "returned"
    /\ ch.steps = NFree
    /\ HasBlock(prog[SubA], ch.new_target)
    /\ check_for_retargetable_block(FindBlock(prog[SubA], ch.new_target),
                                    ch.true_conditions) = ch.target
    /\ ch.result # NoTid

(***************************************************************************)
(* C9  Negation canonicality: negate_condition(negate_condition(e)) is     *)
(* structurally equal to e, for every expression e.                        *)
(***************************************************************************)
C9_DoubleNegationIsIdentity == (pc = "negate" /\ ne.n = 2) => ne.cur = ne.e

IsNegation(e) == e.op = "BoolNegate"

IsDoubleNegation(e) == IsNegation(e) /\ IsNegation(e.arg[1])

\* C9 as amended: negate_condition(negate_condition(e)) is structurally equal
\* to e for every expression e that is not the negation of a negation; for
\* e = BoolNegate(BoolNegate(x)) the result is x.
C9_DoubleNegationUnlessNested ==
    (pc = "negate" /\ ne.n = 2) =>
        IF IsDoubleNegation(ne.e) THEN ne.cur = ne.e.arg[1].arg[1] ELSE ne.cur = ne.e

\* Both calls are done on an expression that is a negation, but not the
\* negation of a negation.
C9_Witness ==
    /\ pc = "negate"
    /\ ne.n = 2
    /\ IsNegation(ne.e)
    /\ ~IsDoubleNegation(ne.e)
    /\ ne.cur = ne.e

(***************************************************************************)
(* C11  Precondition derivation: get_block_precondition_after_defs returns *)
(* Some(e) for a node if and only if the block is not the first block of   *)
(* its subroutine, the node has an incoming edge, every incoming edge is a *)
(* conditional-branch edge without paired jump with condition e or a       *)
(* branch edge paired with a conditional branch whose negated condition is *)
(* e, and no Assign or Load of the block writes a variable read by e;      *)
(* Store definitions never lead to None.                                   *)
(***************************************************************************)
\* Edge::Jump(CBranch { condition: x }, None)
IsCondEdge(e, x) ==
    e.kind = "Jump" /\ e.jmp.kind = "CBranch" /\ e.untaken = NoJmp /\ e.jmp.condition = x

\* Edge::Jump(Branch, Some(CBranch { condition })) with x the negated condition
IsElseEdge(e, x) ==
    /\ e.kind = "Jump" /\ e.jmp.kind = "Branch" /\ e.untaken.kind = "CBranch"
    /\ negate_condition(e.untaken.condition) = x

WritesVarOf(block, x) ==
    \E d \in Range(block.defs) : d.kind \in {"Assign", "Load"} /\ d.var \in input_vars(x)

\* The conditions of the program and their negations.
Candidates(p) ==
    LET cs == {j.condition : j \in {k \in AllJmps(p) : k.kind = "CBranch"}}
    IN  cs \cup {negate_condition(c) : c \in cs}

C11_PreconditionDerivation ==
    pc \in {"derived", "planned"} =>
        LET edges == get_program_cfg(prog).edges
            candidates == Candidates(prog)
        IN  \A s \in SubTids(prog) : \A blk \in Range(prog[s]) :
                LET incoming == {e \in edges : e.dst = blk.tid}
                    got == pl.pre[blk.tid]
                    Derivable(x) ==
                        /\ blk.tid # prog[s][1].tid
                        /\ incoming # {}
                        /\ \A e \in incoming : IsCondEdge(e, x) \/ IsElseEdge(e, x)
                        /\ ~WritesVarOf(blk, x)
                IN  /\ got \in candidates \cup {NoExpr}
                    /\ \A x \in candidates : (got = x) <=> Derivable(x)

\* A block whose Store reads the variable of the condition derives the
\* condition from a conditional-branch edge and a paired branch edge.
C11_Witness ==
    /\ pc = "derived"
    /\ \E blk \in Range(prog[SubA]) :
          LET incoming == {e \in get_program_cfg(prog).edges : e.dst = blk.tid}
              got == pl.pre[blk.tid]
          IN  /\ got # NoExpr
              /\ \E e \in incoming : IsCondEdge(e, got)
              /\ \E e \in incoming : IsElseEdge(e, got)
              /\ \E d \in Range(blk.defs) : d.kind = "Store" /\ d.var \in input_vars(got)

(***************************************************************************)
(* C12  Known-true sets per edge: for a block that ends in a conditional   *)
(* branch with condition c and its paired branch, the planner searches     *)
(* from the conditional target knowing exactly the precondition after the  *)
(* definitions (if derived) and c, and from the else target knowing        *)
(* exactly the precondition (if derived) and negate(c); each search is     *)
(* made once, and its result is stored under the tid of its own jump.      *)
(***************************************************************************)
\* The search recorded for `jmp` starts at the target of the jump, knows
\* exactly `known`, and its result is what the plan holds for the jump.
SearchedWith(blocks, jmp, known) ==
    LET calls == {k \in pl.calls : k.tid = jmp.tid}
    IN  /\ Cardinality(calls) = 1
        /\ \A k \in calls :
              /\ k.target = jmp.target
              /\ Range(k.true_conditions) = known
              /\ LET new_target == find_target_for_retargetable_jump(
                                       k.target, blocks, k.true_conditions)
                 IN  IF new_target = NoTid THEN jmp.tid \notin DOMAIN plan
                     ELSE jmp.tid \in DOMAIN plan /\ plan[jmp.tid] = new_target

C12_KnownTruePerEdge ==
    pc = "planned" =>
        \A s \in SubTids(prog) : \A blk \in Range(prog[s]) :
            IsJumpPair(blk.jmps) =>
                LET c == blk.jmps[1].condition
                    pre == IF pl.pre[blk.tid] = NoExpr THEN {} ELSE {pl.pre[blk.tid]}
                IN  /\ SearchedWith(prog[s], blk.jmps[1], pre \cup {c})
                    /\ SearchedWith(prog[s], blk.jmps[2], pre \cup {negate_condition(c)})

\* The conditional jump of a block with a derived precondition is moved to a
\* target that neither the precondition alone nor the condition alone yields.
C12_Witness ==
    /\ pc = "planned"
    /\ \E blk \in Range(prog[SubA]) :
          /\ IsJumpPair(blk.jmps)
          /\ pl.pre[blk.tid] # NoExpr
          /\ blk.jmps[1].tid \in DOMAIN plan
          /\ blk.jmps[2].tid \notin DOMAIN plan
          /\ plan[blk.jmps[1].tid] #
                find_target_for_retargetable_jump(blk.jmps[1].target, prog[SubA],
                                                  <<pl.pre[blk.tid]>>)
          /\ plan[blk.jmps[1].tid] #
                find_target_for_retargetable_jump(blk.jmps[1].target, prog[SubA],
                                                  <<blk.jmps[1].condition>>)

(***************************************************************************)
(* C13  Conditional step of the chain resolver: at a block without         *)
(* definitions that ends in a conditional branch with condition c to t_if  *)
(* and its paired branch to t_else, check_for_retargetable_block yields    *)
(* t_if when a known-true expression equals c, t_else when a known-true    *)
(* expression equals negate(c), and no target exactly when no known-true   *)
(* expression equals c or negate(c), for every c, also a negated one.      *)
(***************************************************************************)
IsConditionalStep ==
    pc = "checked" /\ cb.block.defs = <<>> /\ IsJumpPair(cb.block.jmps)

\* The targets the claim allows for the known-true expressions `known`.
ClaimedTargets(known) ==
    LET c == cb.block.jmps[1].condition
    IN  (IF c \in known THEN {cb.block.jmps[1].target} ELSE {})
        \cup (IF negate_condition(c) \in known THEN {cb.block.jmps[2].target} ELSE {})

\* Where a known-true expression equals c and another one negate(c), either
\* target is taken to satisfy the claim.
C13_ConditionalStep ==
    IsConditionalStep =>
        LET targets == ClaimedTargets(Range(cb.true_conditions))
        IN  IF targets = {} THEN cb.result = NoTid ELSE cb.result \in targets

\* C13 as amended: the first known-true expression k, in the order of the
\* list, with c = k or c = negate(k) decides, t_if for c = k and t_else
\* otherwise, and there is no target exactly when no known-true expression
\* k has c = k or c = negate(k); where neither c nor a known-true expression
\* is the negation of a negation this is the step the claim describes.
C13_ConditionalStepFirstMatch ==
    IsConditionalStep =>
        LET c == cb.block.jmps[1].condition
            known == cb.true_conditions
            Settles(k) == c = k \/ c = negate_condition(k)
        IN  /\ (cb.result = NoTid) <=> (\A i \in DOMAIN known : ~Settles(known[i]))
            /\ \A i \in DOMAIN known :
                  (Settles(known[i]) /\ \A m \in 1..(i - 1) : ~Settles(known[m]))
                  => cb.result = IF c = known[i] THEN cb.block.jmps[1].target
                                 ELSE cb.block.jmps[2].target
            /\ (~IsDoubleNegation(c) /\ \A k \in Range(known) : ~IsDoubleNegation(k))
                  => C13_ConditionalStep

\* The step is decided by the second known-true expression, the negation of
\* a condition that is itself a negation.
C13_Witness ==
    /\ IsConditionalStep
    /\ Len(cb.true_conditions) = 2
    /\ IsNegation(cb.block.jmps[1].condition)
    /\ cb.block.jmps[1].condition # cb.true_conditions[1]
    /\ cb.block.jmps[1].condition # negate_condition(cb.true_conditions[1])
    /\ cb.block.jmps[1].condition = negate_condition(cb.true_conditions[2])
    /\ cb.block.jmps[1].target # cb.block.jmps[2].target
    /\ cb.result = cb.block.jmps[2].target

(***************************************************************************)
(* C14  Frame of the pass: a run changes nothing but the target of planned *)
(* branches and conditional branches, the return target of planned calls,  *)
(* and the block lists, from which newly orphaned blocks are removed.      *)
(* Every surviving block keeps its tid, its definitions, the number, kinds *)
(* and tids of its jumps, the branch conditions and the callees; surviving *)
(* blocks keep their order; jumps outside the plan keep their targets; no  *)
(* subroutine is added or removed.                                         *)
(***************************************************************************)
\* j1 is j0 but for the one field the pass may overwrite in a planned jump.
SameButTarget(j0, j1) ==
    /\ j1.tid = j0.tid
    /\ j1.kind = j0.kind
    /\ j1.condition = j0.condition
    /\ IF j0.kind \in CallKinds
       THEN j1.target = j0.target /\ (j0.return_ = NoTid => j1.return_ = NoTid)
       ELSE j1.return_ = j0.return_ /\ (j0.kind = "Return" => j1.target = j0.target)

C14_Frame ==
    pc = "done" =>
        /\ SubTids(prog) = SubTids(prog0)
        /\ Removed \subseteq NoIncoming(mid) \ NoIncoming(prog0)
        /\ \A s \in SubTids(prog0) :
              LET kept == SelectSeq(prog0[s], LAMBDA b : b.tid \notin Removed)
              IN  /\ Len(prog[s]) = Len(kept)
                  /\ \A i \in DOMAIN kept :
                        LET b0 == kept[i]
                            b1 == prog[s][i]
                        IN  /\ b1.tid = b0.tid
                            /\ b1.defs = b0.defs
                            /\ Len(b1.jmps) = Len(b0.jmps)
                            /\ \A m \in DOMAIN b0.jmps :
                                  /\ SameButTarget(b0.jmps[m], b1.jmps[m])
                                  /\ b0.jmps[m].tid \notin DOMAIN plan
                                        => b1.jmps[m] = b0.jmps[m]

\* A run that moves a conditional branch and the return target of a call,
\* leaves another jump alone and removes a block.
C14_Witness ==
    /\ pc = "done"
    /\ Removed # {}
    /\ \E j \in AllJmps(prog0) :
          j.tid \in DOMAIN plan /\ j.kind = "CBranch" /\ j \notin AllJmps(prog)
    /\ \E j \in AllJmps(prog0) :
          j.tid \in DOMAIN plan /\ j.kind \in CallKinds /\ j \notin AllJmps(prog)
    /\ \E j \in AllJmps(prog0) : j.tid \notin DOMAIN plan /\ j \in AllJmps(prog)

====
